---- MODULE Spec2Model ----
(***************************************************************************)
(* The analysis callback update_graphs of src/main/python/app.py: fetch    *)
(* the daily bars of one year, drop incomplete bars, derive the 20/50 bar  *)
(* moving averages, summarise, build four figures and forecast 5 business  *)
(* days with ARIMA(5,1,0), mapping every failure to an outcome.            *)
(*                                                                         *)
(* Each invocation is a run r with its own local variables; a run advances *)
(* one pipeline stage per step.  Library calls whose result depends on the *)
(* data (download, dropna, rolling, to_string/describe, the traces built   *)
(* from the frame, ARIMA fit, predict, date_range) either return or raise  *)
(* an Exception; figures built from literals only do not raise.            *)
(***************************************************************************)
EXTENDS Integers, Sequences, FiniteSets, TLC

VARIABLES pc, n_clicks, selected_year, raw, df, eda_summary, candlestick_fig,
          volume_fig, ma_fig, prediction_fig, error_msg, model_fit, forecast,
          forecast_index, raised, result

vars == <<pc, n_clicks, selected_year, raw, df, eda_summary, candlestick_fig,
          volume_fig, ma_fig, prediction_fig, error_msg, model_fit, forecast,
          forecast_index, raised, result>>

\* Longest raw bar sequence the data connector returns in the model.
MaxBars == 63

\* len(df["Close"]) > 60
MinHistory == 60
\* rolling(window=20), rolling(window=50)
WindowMA20 == 20
WindowMA50 == 50
\* forecast_steps = 5
forecast_steps == 5
\* df.head() keeps the first 5 rows
HeadRows == 5

\* The missing-value marker of a frame cell; every real value is >= 0.
NaN == -1

\* Prices are whole multiples of PriceUnit, a common multiple of both window
\* sizes, so that a window mean is exact in integer arithmetic.
PriceUnit == 2 * WindowMA50

Columns == <<"Open", "High", "Low", "Close", "Volume">>
ColumnSet == {Columns[k] : k \in 1..Len(Columns)}
MAColumns == {"MA20", "MA50"}

\* The concurrent invocations of the callback.
Runs == {1, 2}

Min(a, b) == IF a <= b THEN a ELSE b
Least(S) == CHOOSE x \in S : \A y \in S : x <= y

-----------------------------------------------------------------------------
(* The data connector: what yf.download may return.  Bar i of a frame has   *)
(* the calendar day s + i - 1 (day mod 7: 0 = Monday .. 6 = Sunday); s also *)
(* picks the price pattern (s = 0: constant prices).  The bars at the       *)
(* positions in miss are incomplete: the first of them has every field      *)
(* missing, the others one field each.                                      *)

Price(i, s) == PriceUnit * (10 + ((i * s) % 7))

FullBar(i, s) ==
    [Date |-> s + i - 1,
     Open |-> Price(i + 1, s),
     High |-> Price(i, s) + 2 * PriceUnit,
     Low |-> Price(i, s) - 3 * PriceUnit,
     Close |-> Price(i, s),
     Volume |-> 1000 * (i % 3)]

RawBar(i, s, miss) ==
    LET b == FullBar(i, s) IN
    IF i \notin miss THEN b
    ELSE IF i = Least(miss)
         THEN [b EXCEPT !.Open = NaN, !.High = NaN, !.Low = NaN,
                        !.Close = NaN, !.Volume = NaN]
         ELSE [b EXCEPT ![Columns[(i % 5) + 1]] = NaN]

RawFrame(n, s, miss) == [i \in 1..n |-> RawBar(i, s, miss)]

MissPos(n) == {1, (n + 1) \div 2, n} \cap (1..n)

\* The frames of the given lengths and first days the connector may return.
Download(lengths, starts) ==
    UNION {{RawFrame(n, s, miss) : s \in starts, miss \in SUBSET MissPos(n)} :
           n \in lengths}

-----------------------------------------------------------------------------
(* pandas *)

\* The emptiness test left out.
NeverEmpty(frame) == FALSE

\* df.empty
Empty(frame) == Len(frame) = 0

\* dropna(how="all"): only a bar with every field missing counts as incomplete.
IsNotAllMissing(row) == \E c \in ColumnSet : row[c] # NaN

IsComplete(row) == \A c \in ColumnSet : row[c] # NaN

\* df.dropna(): the rows with no missing value, in their order.
Dropna(frame) == SelectSeq(frame, IsComplete)

ColumnOf(frame, c) == [i \in 1..Len(frame) |-> frame[i][c]]

\* Series.rolling(window=w).mean(): the window sum is kept as a running sum
\* (add the entering value, remove the leaving one); the first w - 1 entries
\* are NaN (min_periods defaults to the window).
RECURSIVE RollFrom(_, _, _, _, _)
RollFrom(x, w, i, sum, acc) ==
    IF i > Len(x) THEN acc
    ELSE LET s2 == sum + x[i] - (IF i > w THEN x[i - w] ELSE 0)
         IN  RollFrom(x, w, i + 1, s2,
                      Append(acc, IF i >= w THEN s2 \div w ELSE NaN))

\* A window one bar short.
RollingMeanShort(x, w) == RollFrom(x, w - 1, 1, 0, <<>>)

RollingMean(x, w) == RollFrom(x, w, 1, 0, <<>>)

\* df["MA20"] = ...; df["MA50"] = ...
WithMovingAverages(frame) ==
    LET close == ColumnOf(frame, "Close")
        ma20 == RollingMean(close, WindowMA20)
        ma50 == RollingMean(close, WindowMA50)
    IN  [i \in 1..Len(frame) |->
            [Date |-> frame[i].Date, Open |-> frame[i].Open,
             High |-> frame[i].High, Low |-> frame[i].Low,
             Close |-> frame[i].Close, Volume |-> frame[i].Volume,
             MA20 |-> ma20[i], MA50 |-> ma50[i]]]

\* df.head()
DfHead(frame) == SubSeq(frame, 1, Min(HeadRows, Len(frame)))

\* The columns df.describe() reports: every numeric column of the frame it
\* is called on.
DescribedColumns(frame) == ColumnSet \cup MAColumns

Present(frame, c) == {i \in 1..Len(frame) : frame[i][c] # NaN}

\* A count of the rows instead of the present values.
ColumnStatsCountingRows(frame, c) ==
    [count |-> Len(frame), min |-> NaN, max |-> NaN]

\* One column of df.describe(): NaN cells are skipped; of an all-NaN column
\* the count is 0 and the other statistics are NaN.
ColumnStats(frame, c) ==
    LET P == Present(frame, c) IN
    [count |-> Cardinality(P),
     min |-> IF P = {} THEN NaN
             ELSE frame[CHOOSE i \in P : \A j \in P : frame[i][c] <= frame[j][c]][c],
     max |-> IF P = {} THEN NaN
             ELSE frame[CHOOSE i \in P : \A j \in P : frame[i][c] >= frame[j][c]][c]]

Describe(frame) == [c \in DescribedColumns(frame) |-> ColumnStats(frame, c)]

\* The business-day calendar of freq='B': Monday to Friday, no holidays.
IsBusinessDay(d) == d % 7 < 5

RECURSIVE RollForward(_)
RollForward(d) == IF IsBusinessDay(d) THEN d ELSE RollForward(d + 1)

\* pd.date_range(start, periods, freq='B'): start rolled forward onto a
\* business day, then one business day at a time.
RECURSIVE DateRangeFrom(_, _)
DateRangeFrom(d, periods) ==
    IF periods = 0 THEN <<>>
    ELSE <<d>> \o DateRangeFrom(RollForward(d + 1), periods - 1)

DateRange(start, periods) == DateRangeFrom(RollForward(start), periods)

\* The range started at the last bar's own date.
ForecastStartAtLast(frame) == frame[Len(frame)].Date

\* start=df.index[-1] + pd.Timedelta(days=1)
ForecastStart(frame) == frame[Len(frame)].Date + 1

\* model_fit.predict(start, end): one value per step start..end.  The fitted
\* values are the library's; the last close stands for each of them.
Predict(frame, start, end) ==
    [k \in 1..(end - start + 1) |-> frame[Len(frame)].Close]

-----------------------------------------------------------------------------
(* The outputs *)

NoAnnotation == [text |-> "", detail |-> ""]
\* go.Figure()
EmptyFigure == [title |-> "", data |-> <<>>, annotation |-> NoAnnotation]

NoSummary == [text |-> "", head |-> <<>>, info |-> "", describe |-> <<>>]
ClickPrompt ==
    [text |-> "Click 'Load Data & Analyze' to see the data.", head |-> <<>>,
     info |-> "", describe |-> <<>>]
\* df.info(buf=None) prints and returns None.
Summary(frame) ==
    [text |-> "Data Head / Data Info / Data Description", head |-> DfHead(frame),
     info |-> "None", describe |-> Describe(frame)]

NoError == [text |-> "", year |-> 0, detail |-> ""]
EnterYear == [text |-> "Please enter a valid year.", year |-> 0, detail |-> ""]
NoDataFound(y) == [text |-> "No data found for SPY", year |-> y, detail |-> ""]
NoCleanData(y) ==
    [text |-> "No clean data available for SPY after removing missing values",
     year |-> y, detail |-> ""]
Unexpected(e) == [text |-> "An error occurred", year |-> 0, detail |-> e]

CandlestickFigure(frame) ==
    [title |-> "SPY Candlestick Chart",
     data |-> <<[name |-> "SPY", x |-> ColumnOf(frame, "Date"),
                 open |-> ColumnOf(frame, "Open"),
                 high |-> ColumnOf(frame, "High"),
                 low |-> ColumnOf(frame, "Low"),
                 close |-> ColumnOf(frame, "Close")]>>,
     annotation |-> NoAnnotation]

Trace(frame, c, name) ==
    [name |-> name, x |-> ColumnOf(frame, "Date"), y |-> ColumnOf(frame, c)]

VolumeFigure(frame) ==
    [title |-> "SPY Volume Chart", data |-> <<Trace(frame, "Volume", "Volume")>>,
     annotation |-> NoAnnotation]

MAFigure(frame) ==
    [title |-> "SPY Closing Price with Moving Averages",
     data |-> <<Trace(frame, "Close", "Close Price"),
                Trace(frame, "MA20", "20-Day MA"),
                Trace(frame, "MA50", "50-Day MA")>>,
     annotation |-> NoAnnotation]

\* prediction_fig after the first add_trace (line 210), before the second.
ActualFigure(frame) ==
    [title |-> "", data |-> <<Trace(frame, "Close", "Actual Close")>>,
     annotation |-> NoAnnotation]

\* forecast_df = pd.DataFrame({"Forecast": forecast.values}, index=forecast_index)
\* and the finished prediction figure.
PredictionFigure(frame, values, index) ==
    [title |-> "SPY Price Prediction (ARIMA)",
     data |-> <<Trace(frame, "Close", "Actual Close"),
                [name |-> "Predicted Close (ARIMA)", x |-> index, y |-> values]>>,
     annotation |-> NoAnnotation]

ModelErrorFigure(e) ==
    [title |-> "Prediction Model Error", data |-> <<>>,
     annotation |-> [text |-> "Could not train ARIMA model", detail |-> e]]

NotAvailableFigure ==
    [title |-> "Prediction Model Not Available", data |-> <<>>,
     annotation |->
        [text |-> "Not enough data for ARIMA prediction (need > 60 data points).",
         detail |-> ""]]

\* The guard with >= for >.
SufficientDataInclusive(frame) == Len(frame) >= MinHistory

\* len(df["Close"]) > 60
SufficientData(frame) == Len(frame) > MinHistory

-----------------------------------------------------------------------------
(* The callback *)

\* Module-level variables: one scope for every call.
SharedFrame(r) == 1

\* The scope the local variables of run r live in: every call of
\* update_graphs has its own.
Frame(r) == r

\* return candlestick_fig, volume_fig, ma_fig, prediction_fig, eda_summary, error_msg
Returned(f) ==
    <<candlestick_fig[f], volume_fig[f], ma_fig[f], prediction_fig[f],
      eda_summary[f], error_msg[f]>>

\* The same tuple, of the values the step leaves in the locals.
ReturnedNext(f) ==
    <<candlestick_fig'[f], volume_fig'[f], ma_fig'[f], prediction_fig'[f],
      eda_summary'[f], error_msg'[f]>>

NotReturned == <<>>
Unbound == <<>>

Init ==
    /\ pc = [r \in Runs |-> "idle"]
    /\ n_clicks = [r \in Runs |-> 0]
    /\ selected_year = [r \in Runs |-> 0]
    /\ raw = [r \in Runs |-> Unbound]
    /\ df = [r \in Runs |-> Unbound]
    /\ eda_summary = [r \in Runs |-> NoSummary]
    /\ candlestick_fig = [r \in Runs |-> EmptyFigure]
    /\ volume_fig = [r \in Runs |-> EmptyFigure]
    /\ ma_fig = [r \in Runs |-> EmptyFigure]
    /\ prediction_fig = [r \in Runs |-> EmptyFigure]
    /\ error_msg = [r \in Runs |-> NoError]
    /\ model_fit = [r \in Runs |-> "unbound"]
    /\ forecast = [r \in Runs |-> Unbound]
    /\ forecast_index = [r \in Runs |-> Unbound]
    /\ raised = [r \in Runs |-> ""]
    /\ result = [r \in Runs |-> NotReturned]

\* Lines 96-111: a call with its arguments; the locals start empty.  n_clicks
\* 0 stands for None or 0, selected_year 0 for None or 0.
Invoke(r) ==
    /\ pc[r] = "idle"
    /\ \E c \in 0..1, y \in {0, 2023} :
        /\ n_clicks' = [n_clicks EXCEPT ![r] = c]
        /\ selected_year' = [selected_year EXCEPT ![r] = y]
        /\ candlestick_fig' = [candlestick_fig EXCEPT ![Frame(r)] = EmptyFigure]
        /\ volume_fig' = [volume_fig EXCEPT ![Frame(r)] = EmptyFigure]
        /\ ma_fig' = [ma_fig EXCEPT ![Frame(r)] = EmptyFigure]
        /\ prediction_fig' = [prediction_fig EXCEPT ![Frame(r)] = EmptyFigure]
        /\ eda_summary' = [eda_summary EXCEPT ![Frame(r)] = NoSummary]
        /\ error_msg' = [error_msg EXCEPT ![Frame(r)] =
                            IF c # 0 /\ y = 0 THEN EnterYear ELSE NoError]
        /\ df' = [df EXCEPT ![Frame(r)] = Unbound]
        /\ model_fit' = [model_fit EXCEPT ![Frame(r)] = "unbound"]
        /\ forecast' = [forecast EXCEPT ![Frame(r)] = Unbound]
        /\ forecast_index' = [forecast_index EXCEPT ![Frame(r)] = Unbound]
        /\ raw' = [raw EXCEPT ![r] = Unbound]
        /\ raised' = [raised EXCEPT ![r] = ""]
        /\ IF c = 0
           THEN /\ pc' = [pc EXCEPT ![r] = "ret107"]
                /\ result' = [result EXCEPT ![r] =
                                 <<candlestick_fig'[Frame(r)], volume_fig'[Frame(r)],
                                   ma_fig'[Frame(r)], prediction_fig'[Frame(r)],
                                   ClickPrompt, error_msg'[Frame(r)]>>]
           ELSE IF y = 0
           THEN /\ pc' = [pc EXCEPT ![r] = "ret111"]
                /\ result' = [result EXCEPT ![r] = ReturnedNext(Frame(r))]
           ELSE /\ pc' = [pc EXCEPT ![r] = "fetch"]
                /\ result' = [result EXCEPT ![r] = NotReturned]

\* A try statement that starts after the download.
InTryAfterDownload(stage) ==
    stage \in {"clean", "features", "summary", "candlestick", "volume", "ma",
               "guard", "fit", "predict", "plot"}

\* Lines 113 and 233: the stages the try statement encloses.
InTry(stage) ==
    stage \in {"fetch", "clean", "features", "summary", "candlestick", "volume",
               "ma", "guard", "fit", "predict", "plot"}

\* Lines 233-236: the outer handler sets the message and returns the locals
\* as they are.
Except(r, e) ==
    /\ error_msg' = [error_msg EXCEPT ![Frame(r)] = Unexpected(e)]
    /\ raised' = [raised EXCEPT ![r] = e]
    /\ pc' = [pc EXCEPT ![r] = "ret236"]
    /\ UNCHANGED <<n_clicks, selected_year, raw, df, eda_summary,
                   candlestick_fig, volume_fig, ma_fig, prediction_fig,
                   model_fit, forecast, forecast_index>>
    /\ result' = [result EXCEPT ![r] = ReturnedNext(Frame(r))]

\* An exception no handler encloses leaves the call: nothing is returned.
Propagate(r, e) ==
    /\ raised' = [raised EXCEPT ![r] = e]
    /\ pc' = [pc EXCEPT ![r] = "crashed"]
    /\ UNCHANGED <<n_clicks, selected_year, raw, df, eda_summary,
                   candlestick_fig, volume_fig, ma_fig, prediction_fig,
                   error_msg, model_fit, forecast, forecast_index, result>>

\* The stage at pc[r] raises the exception e.
Raise(r, e) == IF InTry(e) THEN Except(r, e) ELSE Propagate(r, e)

\* An early return with an error message (lines 121-122, 128-129).
ReturnError(r, msg, site) ==
    /\ error_msg' = [error_msg EXCEPT ![Frame(r)] = msg]
    /\ pc' = [pc EXCEPT ![r] = site]
    /\ result' = [result EXCEPT ![r] = ReturnedNext(Frame(r))]

\* Lines 114-122: the download returns one of the frames of universe.
Fetch(r, universe) ==
    /\ pc[r] = "fetch"
    /\ \/ \E frame \in universe :
            /\ raw' = [raw EXCEPT ![r] = frame]
            /\ df' = [df EXCEPT ![Frame(r)] = frame]
            /\ UNCHANGED <<n_clicks, selected_year, eda_summary,
                           candlestick_fig, volume_fig, ma_fig, prediction_fig,
                           model_fit, forecast, forecast_index, raised>>
            /\ IF Empty(frame)
               THEN ReturnError(r, NoDataFound(selected_year[r]), "ret122")
               ELSE /\ pc' = [pc EXCEPT ![r] = "clean"]
                    /\ UNCHANGED <<error_msg, result>>
       \/ Raise(r, "fetch")

\* Lines 125-129
Clean(r) ==
    /\ pc[r] = "clean"
    /\ \/ /\ df' = [df EXCEPT ![Frame(r)] = Dropna(df[Frame(r)])]
          /\ UNCHANGED <<n_clicks, selected_year, raw, eda_summary,
                         candlestick_fig, volume_fig, ma_fig, prediction_fig,
                         model_fit, forecast, forecast_index, raised>>
          /\ IF Empty(df'[Frame(r)])
             THEN ReturnError(r, NoCleanData(selected_year[r]), "ret129")
             ELSE /\ pc' = [pc EXCEPT ![r] = "features"]
                  /\ UNCHANGED <<error_msg, result>>
       \/ Raise(r, "clean")

\* Lines 132-133
Features(r) ==
    /\ pc[r] = "features"
    /\ \/ /\ df' = [df EXCEPT ![Frame(r)] = WithMovingAverages(df[Frame(r)])]
          /\ pc' = [pc EXCEPT ![r] = "summary"]
          /\ UNCHANGED <<n_clicks, selected_year, raw, eda_summary,
                         candlestick_fig, volume_fig, ma_fig, prediction_fig,
                         error_msg, model_fit, forecast, forecast_index,
                         raised, result>>
       \/ Raise(r, "features")

\* Lines 136-145
Summarize(r) ==
    /\ pc[r] = "summary"
    /\ \/ /\ eda_summary' = [eda_summary EXCEPT ![Frame(r)] = Summary(df[Frame(r)])]
          /\ pc' = [pc EXCEPT ![r] = "candlestick"]
          /\ UNCHANGED <<n_clicks, selected_year, raw, df, candlestick_fig,
                         volume_fig, ma_fig, prediction_fig, error_msg,
                         model_fit, forecast, forecast_index, raised, result>>
       \/ Raise(r, "summary")

\* Lines 148-166
Candlestick(r) ==
    /\ pc[r] = "candlestick"
    /\ \/ /\ candlestick_fig' = [candlestick_fig EXCEPT ![Frame(r)] =
                                    CandlestickFigure(df[Frame(r)])]
          /\ pc' = [pc EXCEPT ![r] = "volume"]
          /\ UNCHANGED <<n_clicks, selected_year, raw, df, eda_summary,
                         volume_fig, ma_fig, prediction_fig, error_msg,
                         model_fit, forecast, forecast_index, raised, result>>
       \/ Raise(r, "candlestick")

\* Lines 169-177
Volume(r) ==
    /\ pc[r] = "volume"
    /\ \/ /\ volume_fig' = [volume_fig EXCEPT ![Frame(r)] = VolumeFigure(df[Frame(r)])]
          /\ pc' = [pc EXCEPT ![r] = "ma"]
          /\ UNCHANGED <<n_clicks, selected_year, raw, df, eda_summary,
                         candlestick_fig, ma_fig, prediction_fig, error_msg,
                         model_fit, forecast, forecast_index, raised, result>>
       \/ Raise(r, "volume")

\* Lines 180-189
MovingAverageChart(r) ==
    /\ pc[r] = "ma"
    /\ \/ /\ ma_fig' = [ma_fig EXCEPT ![Frame(r)] = MAFigure(df[Frame(r)])]
          /\ pc' = [pc EXCEPT ![r] = "guard"]
          /\ UNCHANGED <<n_clicks, selected_year, raw, df, eda_summary,
                         candlestick_fig, volume_fig, prediction_fig, error_msg,
                         model_fit, forecast, forecast_index, raised, result>>
       \/ Raise(r, "ma")

\* Lines 194, 224-231: the length guard; too short a series gets the
\* not-available figure and the run returns.
Guard(r) ==
    /\ pc[r] = "guard"
    /\ UNCHANGED <<n_clicks, selected_year, raw, df, eda_summary,
                   candlestick_fig, volume_fig, ma_fig, error_msg, model_fit,
                   forecast, forecast_index, raised>>
    /\ IF SufficientData(df[Frame(r)])
       THEN /\ pc' = [pc EXCEPT ![r] = "fit"]
            /\ UNCHANGED <<prediction_fig, result>>
       ELSE /\ prediction_fig' = [prediction_fig EXCEPT ![Frame(r)] = NotAvailableFigure]
            /\ pc' = [pc EXCEPT ![r] = "ret231"]
            /\ result' = [result EXCEPT ![r] = ReturnedNext(Frame(r))]

\* No inner try: the error of the fit reaches the outer handler.
FitFailedUnhandled(r, e) ==
    /\ error_msg' = [error_msg EXCEPT ![Frame(r)] = Unexpected(e)]
    /\ raised' = [raised EXCEPT ![r] = e]
    /\ pc' = [pc EXCEPT ![r] = "ret236"]
    /\ UNCHANGED <<n_clicks, selected_year, raw, df, eda_summary,
                   candlestick_fig, volume_fig, ma_fig, prediction_fig>>
    /\ result' = [result EXCEPT ![r] = ReturnedNext(Frame(r))]

\* Lines 218-223, 231: the handler of the inner try: the figure is reset and
\* names the error; the run returns without an error message.
FitFailed(r, e) ==
    /\ prediction_fig' = [prediction_fig EXCEPT ![Frame(r)] = ModelErrorFigure(e)]
    /\ raised' = [raised EXCEPT ![r] = e]
    /\ pc' = [pc EXCEPT ![r] = "ret231"]
    /\ UNCHANGED <<n_clicks, selected_year, raw, df, eda_summary,
                   candlestick_fig, volume_fig, ma_fig, error_msg>>
    /\ result' = [result EXCEPT ![r] = ReturnedNext(Frame(r))]

\* Lines 198-199: ARIMA(df["Close"], order=(5,1,0)).fit() returns or raises.
Fit(r) ==
    /\ pc[r] = "fit"
    /\ \/ /\ model_fit' = [model_fit EXCEPT ![Frame(r)] = "fitted"]
          /\ pc' = [pc EXCEPT ![r] = "predict"]
          /\ UNCHANGED <<n_clicks, selected_year, raw, df, eda_summary,
                         candlestick_fig, volume_fig, ma_fig, prediction_fig,
                         error_msg, forecast, forecast_index, raised, result>>
       \/ /\ FitFailed(r, "fit")
          /\ UNCHANGED <<model_fit, forecast, forecast_index>>

\* Lines 202-207
Forecast(r) ==
    /\ pc[r] = "predict"
    /\ \/ /\ forecast' = [forecast EXCEPT ![Frame(r)] =
                            Predict(df[Frame(r)], Len(df[Frame(r)]),
                                    Len(df[Frame(r)]) + forecast_steps - 1)]
          /\ forecast_index' = [forecast_index EXCEPT ![Frame(r)] =
                                  DateRange(ForecastStart(df[Frame(r)]), forecast_steps)]
          /\ pc' = [pc EXCEPT ![r] = "plot"]
          /\ UNCHANGED <<n_clicks, selected_year, raw, df, eda_summary,
                         candlestick_fig, volume_fig, ma_fig, prediction_fig,
                         error_msg, model_fit, raised, result>>
       \/ /\ FitFailed(r, "predict")
          /\ UNCHANGED <<model_fit, forecast, forecast_index>>

\* Lines 209-217, 231: the prediction figure; when the second trace raises,
\* the figure holding the first is what the handler finds.
Plot(r) ==
    /\ pc[r] = "plot"
    /\ \/ /\ prediction_fig' = [prediction_fig EXCEPT ![Frame(r)] =
                                  PredictionFigure(df[Frame(r)], forecast[Frame(r)],
                                                   forecast_index[Frame(r)])]
          /\ pc' = [pc EXCEPT ![r] = "ret231"]
          /\ UNCHANGED <<n_clicks, selected_year, raw, df, eda_summary,
                         candlestick_fig, volume_fig, ma_fig, error_msg,
                         model_fit, forecast, forecast_index, raised>>
          /\ result' = [result EXCEPT ![r] = ReturnedNext(Frame(r))]
       \/ /\ prediction_fig' = [prediction_fig EXCEPT ![Frame(r)] =
                                  ActualFigure(df[Frame(r)])]
          /\ pc' = [pc EXCEPT ![r] = "plot_raised"]
          /\ UNCHANGED <<n_clicks, selected_year, raw, df, eda_summary,
                         candlestick_fig, volume_fig, ma_fig, error_msg,
                         model_fit, forecast, forecast_index, raised, result>>

PlotFailed(r) ==
    /\ pc[r] = "plot_raised"
    /\ FitFailed(r, "plot")
    /\ UNCHANGED <<model_fit, forecast, forecast_index>>

\* The return sites of update_graphs.
Returns == {"ret107", "ret111", "ret122", "ret129", "ret231", "ret236"}

\* The caller takes what the call returned; the frame of the call is gone.
Respond(r) ==
    /\ pc[r] \in Returns \cup {"crashed"}
    /\ pc' = [pc EXCEPT ![r] = "idle"]
    /\ n_clicks' = [n_clicks EXCEPT ![r] = 0]
    /\ selected_year' = [selected_year EXCEPT ![r] = 0]
    /\ raw' = [raw EXCEPT ![r] = Unbound]
    /\ raised' = [raised EXCEPT ![r] = ""]
    /\ result' = [result EXCEPT ![r] = NotReturned]
    /\ df' = [df EXCEPT ![Frame(r)] = Unbound]
    /\ eda_summary' = [eda_summary EXCEPT ![Frame(r)] = NoSummary]
    /\ candlestick_fig' = [candlestick_fig EXCEPT ![Frame(r)] = EmptyFigure]
    /\ volume_fig' = [volume_fig EXCEPT ![Frame(r)] = EmptyFigure]
    /\ ma_fig' = [ma_fig EXCEPT ![Frame(r)] = EmptyFigure]
    /\ prediction_fig' = [prediction_fig EXCEPT ![Frame(r)] = EmptyFigure]
    /\ error_msg' = [error_msg EXCEPT ![Frame(r)] = NoError]
    /\ model_fit' = [model_fit EXCEPT ![Frame(r)] = "unbound"]
    /\ forecast' = [forecast EXCEPT ![Frame(r)] = Unbound]
    /\ forecast_index' = [forecast_index EXCEPT ![Frame(r)] = Unbound]

Step(r, universe) ==
    \/ Invoke(r)
    \/ Fetch(r, universe)
    \/ Clean(r)
    \/ Features(r)
    \/ Summarize(r)
    \/ Candlestick(r)
    \/ Volume(r)
    \/ MovingAverageChart(r)
    \/ Guard(r)
    \/ Fit(r)
    \/ Forecast(r)
    \/ Plot(r)
    \/ PlotFailed(r)
    \/ Respond(r)

\* One request at a time, any frame of up to MaxBars bars.
Next == Step(1, Download(0..MaxBars, 0..6))

Spec == Init /\ [][Next]_vars

\* Two requests at once, on the frames of lengths 0, 1 and MaxBars.
NextConcurrent == \E r \in Runs : Step(r, Download({0, 1, MaxBars}, {1}))

SpecConcurrent == Init /\ [][NextConcurrent]_vars

-----------------------------------------------------------------------------
(* Properties *)

Complete(frame) == {i \in 1..Len(frame) : \A c \in ColumnSet : frame[i][c] # NaN}

\* The number of bars of the raw frame that survive cleaning.
CleanLength(r) == Cardinality(Complete(raw[r]))

InnerStages == {"fit", "predict", "plot"}
FitPositions == {"fit", "predict", "plot", "plot_raised"}

\* C1: a run whose cleaned series has at most 60 bars never enters the ARIMA
\* fit, and when it reaches the forecast stage it returns the not-available
\* figure; the length that counts is the cleaned one, whatever the raw one.
C1_InsufficientData ==
    \A r \in Runs :
        CleanLength(r) <= 60 =>
            /\ pc[r] \notin FitPositions
            /\ model_fit[r] = "unbound"
            /\ forecast[r] = <<>>
            /\ pc[r] = "ret231" =>
                /\ result[r][4] = NotAvailableFigure
                /\ raised[r] = ""

\* A raw frame longer than 60 whose cleaned series has exactly 60 bars has
\* returned from the forecast stage.
C1_Witness ==
    \E r \in Runs :
        /\ pc[r] = "ret231"
        /\ Len(raw[r]) > 60
        /\ CleanLength(r) = 60

NoDataTexts ==
    {"No data found for SPY",
     "No clean data available for SPY after removing missing values"}

\* C2: a run whose download is empty, or has no complete bar, returns a NoData
\* message and nothing else: the four figures and the summary are the empty
\* initial ones, no moving average, model or forecast exists, and the two
\* cases differ in the message text only.
C2_NoData ==
    \A r \in Runs :
        (/\ pc[r] \in Returns
         /\ n_clicks[r] # 0 /\ selected_year[r] # 0
         /\ raised[r] = ""
         /\ CleanLength(r) = 0) =>
            /\ pc[r] \in {"ret122", "ret129"}
            /\ result[r] =
                 <<EmptyFigure, EmptyFigure, EmptyFigure, EmptyFigure, NoSummary,
                   [text |-> IF Len(raw[r]) = 0
                             THEN "No data found for SPY"
                             ELSE "No clean data available for SPY after removing missing values",
                    year |-> selected_year[r], detail |-> ""]>>
            /\ df[r] = <<>>
            /\ model_fit[r] = "unbound"
            /\ forecast[r] = <<>>

\* A frame of several bars, all of them incomplete, has been cleaned away.
C2_Witness ==
    \E r \in Runs :
        /\ pc[r] = "ret129"
        /\ Len(raw[r]) >= 2
        /\ result[r][6].text \in NoDataTexts

\* C3: when the fit, the prediction or the plotting of the forecast raises,
\* the run returns normally: the prediction figure is the error figure, with
\* the diagnostic and no trace left of the attempt, the error message is
\* empty, and the summary and the three charts are the ones computed from the
\* cleaned series of more than 60 bars.
C3_FitFailed ==
    \A r \in Runs :
        raised[r] \in InnerStages =>
            /\ pc[r] = "ret231"
            /\ CleanLength(r) > 60
            /\ result[r][4].title = "Prediction Model Error"
            /\ result[r][4].annotation.detail = raised[r]
            /\ result[r][4].data = <<>>
            /\ result[r][6] = NoError
            /\ result[r][5] = eda_summary[r]
            /\ result[r][5].text # ""
            /\ result[r][5].describe["Close"].count = CleanLength(r)
            /\ result[r][1] = CandlestickFigure(df[r])
            /\ result[r][2] = VolumeFigure(df[r])
            /\ result[r][3] = MAFigure(df[r])

\* The second trace of the prediction figure raised, after the first was added.
C3_Witness ==
    \E r \in Runs :
        /\ pc[r] = "ret231"
        /\ raised[r] = "plot"
        /\ forecast[r] # <<>>

ErrorSet(res) == res[6].text # ""
SummaryPopulated(res) == res[5].text # ""
ChartsPopulated(res) == \A k \in 1..3 : res[k].data # <<>>
NothingPopulated(res) ==
    /\ res[5].text = ""
    /\ \A k \in 1..4 : res[k] = EmptyFigure
ForecastUnavailable(res) ==
    /\ res[4].data = <<>>
    /\ res[4].annotation.text # ""
ForecastPopulated(res) ==
    /\ Len(res[4].data) = 2
    /\ res[4].annotation.text = ""

NoAnalysis(res) == ErrorSet(res) /\ NothingPopulated(res)
PartialSuccess(res) ==
    ~ErrorSet(res) /\ SummaryPopulated(res) /\ ChartsPopulated(res)
        /\ ForecastUnavailable(res)
FullSuccess(res) ==
    ~ErrorSet(res) /\ SummaryPopulated(res) /\ ChartsPopulated(res)
        /\ ForecastPopulated(res)

\* C4: every run of a request (a click) returns one of three outcomes: an
\* error message with nothing populated; summary and charts with the forecast
\* marked unavailable; or summary, charts and forecast; never an error
\* message together with a populated summary or chart.
C4_ThreeOutcomes ==
    \A r \in Runs :
        (pc[r] \in Returns /\ n_clicks[r] # 0) =>
            \/ NoAnalysis(result[r])
            \/ PartialSuccess(result[r])
            \/ FullSuccess(result[r])

OuterStages ==
    {"fetch", "clean", "features", "summary", "candlestick", "volume", "ma"}

C6_DropsExactlyIncomplete ==
    \A r \in Runs :
        pc[r] \in {"features", "ret129"} =>
            /\ Len(df[r]) = CleanLength(r)
            /\ \A i \in 1..Len(df[r]) : \E j \in Complete(raw[r]) : df[r][i] = raw[r][j]
            /\ \A j \in Complete(raw[r]) : \E i \in 1..Len(df[r]) : df[r][i] = raw[r][j]
            /\ \A i, k \in 1..Len(df[r]) : i < k => df[r][i].Date < df[r][k].Date

\* An incomplete bar between two complete ones was dropped.
C6_Witness ==
    \E r \in Runs :
        /\ pc[r] = "features"
        /\ Len(df[r]) >= 2
        /\ \E j \in 2..(Len(raw[r]) - 1) :
              /\ j \notin Complete(raw[r])
              /\ {j - 1, j + 1} \subseteq Complete(raw[r])

RECURSIVE SumOver(_, _, _)
SumOver(x, lo, hi) == IF lo > hi THEN 0 ELSE x[hi] + SumOver(x, lo, hi - 1)

\* Entry i (from 1) of a moving average over w bars: absent before the window
\* fills, the mean of the last w closes from then on.
IsWindowMean(frame, i, value, w) ==
    IF i < w THEN value = NaN /\ value # 0
    ELSE /\ value # NaN
         /\ value * w = SumOver(ColumnOf(frame, "Close"), i - w + 1, i)

\* C7: in the frame with the features, MA20 is present from the 20th bar
\* (index 19 from 0) and MA50 from the 50th, each the mean of the closes of
\* its window; before that the value is the missing marker, not zero; and the
\* moving-average chart plots the same values, the missing ones included.
C7_MovingAverages ==
    \A r \in Runs :
        /\ pc[r] = "summary" =>
              \A i \in 1..Len(df[r]) :
                  /\ IsWindowMean(df[r], i, df[r][i].MA20, 20)
                  /\ IsWindowMean(df[r], i, df[r][i].MA50, 50)
        /\ pc[r] = "guard" =>
              \A i \in 1..Len(df[r]) :
                  /\ IsWindowMean(df[r], i, ma_fig[r].data[2].y[i], 20)
                  /\ IsWindowMean(df[r], i, ma_fig[r].data[3].y[i], 50)

\* Both averages are present in a series of varying closes.
C7_Witness ==
    \E r \in Runs :
        /\ pc[r] = "summary"
        /\ Len(df[r]) > 50
        /\ df[r][1].Close # df[r][2].Close
        /\ df[r][Len(df[r])].MA50 # df[r][Len(df[r])].MA20

Weekday(d) == d % 7
MondayToFriday(d) == Weekday(d) \in 0..4
LastDate(r) == df[r][Len(df[r])].Date

\* C8: a run that fitted and forecast returns a forecast trace of 5 dates and
\* 5 values, pairwise in the order computed; the dates are Monday-to-Friday
\* days, the first the first such day after the last bar's date, each next
\* the first such day after the one before.
C8_ForecastDates ==
    \A r \in Runs :
        (pc[r] = "ret231" /\ raised[r] = "" /\ CleanLength(r) > 60) =>
            LET trace == result[r][4].data[2] IN
            /\ Len(trace.x) = 5
            /\ Len(trace.y) = 5
            /\ trace.x = forecast_index[r]
            /\ trace.y = forecast[r]
            /\ \A k \in 1..5 :
                  LET prev == IF k = 1 THEN LastDate(r) ELSE trace.x[k - 1] IN
                  /\ MondayToFriday(trace.x[k])
                  /\ trace.x[k] > prev
                  /\ \A d \in (prev + 1)..(trace.x[k] - 1) : ~MondayToFriday(d)

\* The last bar is a Saturday's and the forecast was returned.
C8_Witness ==
    \E r \in Runs :
        /\ pc[r] = "ret231"
        /\ raised[r] = ""
        /\ CleanLength(r) > 60
        /\ Weekday(LastDate(r)) = 5

\* The bars of the cleaned series: the complete bars of the raw frame, in order.
RECURSIVE NthComplete(_, _, _)
NthComplete(frame, n, from) ==
    IF from \in Complete(frame)
    THEN IF n = 1 THEN from ELSE NthComplete(frame, n - 1, from + 1)
    ELSE NthComplete(frame, n, from + 1)

HeadIsFirstRows(r) ==
    LET head == eda_summary[r].head
        L == CleanLength(r)
    IN  /\ Len(head) = (IF L < 5 THEN L ELSE 5)
        /\ \A i \in 1..Len(head) :
              LET bar == raw[r][NthComplete(raw[r], i, 1)] IN
              /\ head[i].Date = bar.Date
              /\ \A c \in ColumnSet : head[i][c] = bar[c]

\* C9 as stated: the head is the first min(5, L) rows of the cleaned series
\* and every column of the description has count L.
C9_CountIsLengthEveryColumn ==
    \A r \in Runs :
        pc[r] = "candlestick" =>
            /\ HeadIsFirstRows(r)
            /\ \A c \in DOMAIN eda_summary[r].describe :
                  eda_summary[r].describe[c].count = CleanLength(r)

Monus(a, b) == IF a > b THEN a - b ELSE 0

\* C9, amended: the head is the first min(5, L) rows of the cleaned series;
\* the description reports the five bar columns, each with count L, and the
\* two moving averages, with the counts of their present values: L - 19 and
\* L - 49, or 0 when the window never fills.
C9_CountPerColumn ==
    \A r \in Runs :
        pc[r] = "candlestick" =>
            /\ HeadIsFirstRows(r)
            /\ DOMAIN eda_summary[r].describe =
                  {"Open", "High", "Low", "Close", "Volume", "MA20", "MA50"}
            /\ \A c \in {"Open", "High", "Low", "Close", "Volume"} :
                  eda_summary[r].describe[c].count = CleanLength(r)
            /\ eda_summary[r].describe["MA20"].count = Monus(CleanLength(r), 19)
            /\ eda_summary[r].describe["MA50"].count = Monus(CleanLength(r), 49)

\* A series long enough for both averages, whose first bar was dropped.
C9_Witness ==
    \E r \in Runs :
        /\ pc[r] = "candlestick"
        /\ CleanLength(r) > 50
        /\ 1 \notin Complete(raw[r])


\* What a call returns when it runs alone: on the arguments c and y, the
\* downloaded frame and the stage that raised (none: "").
RunAlone(c, y, frame, e) ==
    LET none == EmptyFigure
        clean == Dropna(frame)
        feat == WithMovingAverages(clean)
        out(k, fig4, err) ==
            <<IF k >= 2 THEN CandlestickFigure(feat) ELSE none,
              IF k >= 3 THEN VolumeFigure(feat) ELSE none,
              IF k >= 4 THEN MAFigure(feat) ELSE none,
              fig4,
              IF k >= 1 THEN Summary(feat) ELSE NoSummary,
              err>>
    IN  IF c = 0 THEN <<none, none, none, none, ClickPrompt, NoError>>
        ELSE IF y = 0 THEN out(0, none, EnterYear)
        ELSE IF e = "fetch" THEN out(0, none, Unexpected(e))
        ELSE IF Len(frame) = 0 THEN out(0, none, NoDataFound(y))
        ELSE IF e = "clean" THEN out(0, none, Unexpected(e))
        ELSE IF Len(clean) = 0 THEN out(0, none, NoCleanData(y))
        ELSE IF e = "features" \/ e = "summary" THEN out(0, none, Unexpected(e))
        ELSE IF e = "candlestick" THEN out(1, none, Unexpected(e))
        ELSE IF e = "volume" THEN out(2, none, Unexpected(e))
        ELSE IF e = "ma" THEN out(3, none, Unexpected(e))
        ELSE IF Len(clean) <= MinHistory THEN out(4, NotAvailableFigure, NoError)
        ELSE IF e \in InnerStages THEN out(4, ModelErrorFigure(e), NoError)
        ELSE out(4, PredictionFigure(feat,
                                     Predict(feat, Len(feat), Len(feat) + forecast_steps - 1),
                                     DateRange(ForecastStart(feat), forecast_steps)),
                 NoError)

\* C10: whatever the interleaving of two calls, each returns what it returns
\* when it runs alone on its own arguments and its own downloaded frame.
C10_RunsDoNotInterfere ==
    \A r \in Runs :
        pc[r] \in Returns =>
            result[r] = RunAlone(n_clicks[r], selected_year[r], raw[r], raised[r])

\* One call has returned its forecast while the other, on another frame, is
\* between its download and its return.
C10_Witness ==
    /\ pc[1] = "ret231"
    /\ Len(result[1][4].data) = 2
    /\ pc[2] \in {"clean", "features", "summary", "candlestick", "volume", "ma",
                  "guard"}
    /\ raw[2] # raw[1]

====
